---------------------------- MODULE Spec2Model ----------------------------
(***************************************************************************)
(* Model of eddy_pro_files/(co)spectras/plot_(co)spectras.py.              *)
(*                                                                         *)
(* The script reads the EddyPro full-output table, keeps the raw file      *)
(* names whose qc_co2_flux flag is 0 (get_good_files), merges the spectra  *)
(* and cospectra of those files into two tables (merge_good_files) and     *)
(* plots the per-row median and a lowess fit of each table (plot_spectras, *)
(* plot_cospectras).  The module can be run as a script (main) or imported *)
(* and its plot functions called directly; `caller` tells the two apart.   *)
(*                                                                         *)
(* Strings that the code slices or matches (file names, column keys) are   *)
(* sequences of one-character strings.  Numbers are integers; the pandas   *)
(* missing value is the reserved integer NaN.  The median of an even       *)
(* number of values is the mean of the two middle ones, so medians are     *)
(* kept doubled (MedianTimes2) to stay integral.                           *)
(***************************************************************************)
EXTENDS Integers, Sequences, FiniteSets, TLC

VARIABLES
    caller,           \* "main": run as a script; "user": imported, functions called
    fullOutputFiles,  \* glob result for '**full_output*.csv*': tables, listing order
    cospectraFolder,  \* eddypro_full_cospectra/: files [name, rows], listing order
    pc,               \* position in main
    good_files,       \* main's good_files
    i,                \* merge_good_files: position of the for loop in good_files
    good_spectras,    \* merge_good_files / main: the spectra table
    good_cospectras,  \* merge_good_files / main: the cospectra table
    fig1,             \* pyplot figure 1: curves and axis scales
    fig2,             \* pyplot figure 2
    saved,            \* paths written by savefig, in order
    shown,            \* plt.show() has run
    error,            \* exception that ended main ("" when none)
    trace,            \* steps of main completed so far, in order
    visited,          \* positions of good_files the merge loop has visited
    merge_arg,        \* merge_good_files: its parameter good_files
    calls             \* plot calls made so far: [fn, df, outfile]

vars == <<caller, fullOutputFiles, cospectraFolder, pc, good_files, i,
          good_spectras, good_cospectras, fig1, fig2, saved, shown, error,
          trace, visited, merge_arg, calls>>

---------------------------------------------------------------------------
(* Bounds of the model *)

MaxRows == 2          \* rows of the full-output table
MaxCalls == 2         \* direct calls of the plot functions by an importing user

(* Program constants *)

Sentinel == -9999     \* na_values=-9999
NaN == -1             \* pandas' missing value (data values of the model are > 0)
FitStart == 40        \* smoothed[40:, ...] in plot_spectras

None == "None"        \* Python's None, as the default of outfile

---------------------------------------------------------------------------
(* Python and pandas primitives, as the code uses them *)

Min(a, b) == IF a < b THEN a ELSE b
Max(a, b) == IF a > b THEN a ELSE b

\* s[a:b] of Python: negative positions count from the end, both are clamped
PySlice(s, a, b) ==
    LET n == Len(s)
        norm(x) == IF x < 0 THEN Max(x + n, 0) ELSE Min(x, n)
        lo == norm(a)
        hi == norm(b)
    IN  IF lo < hi THEN SubSeq(s, lo + 1, hi) ELSE <<>>

\* p occurs in s as a contiguous substring
Contains(s, p) ==
    \E k \in 0..(Len(s) - Len(p)) : SubSeq(s, k + 1, k + Len(p)) = p

\* a string of the code as a sequence of characters
ext_dat == <<".", "d", "a", "t">>
ext_csv == <<".", "c", "s", "v">>
ext_txt == <<".", "t", "x", "t">>
day == <<"2", "0", "1", "9", "0", "7", "2", "3">>
t1030 == <<"1", "0", "3", "0">>
t1100 == <<"1", "1", "0", "0">>
dash == <<"-">>

---------------------------------------------------------------------------
(* The inputs: what the folder can hold *)

\* raw 10 Hz file names of the 'filename' column of the full-output table
rawA == <<"M", "O", "F", "O", "_">> \o day \o dash \o t1030 \o ext_dat
rawB == <<"M", "O", "F", "O", "_">> \o day \o dash \o t1100 \o ext_dat
rawShort == <<"1">> \o ext_dat
RawNames == {rawA, rawB, rawShort}

\* values of the qc_co2_flux column: Foken flags 0, 1, and a missing flag
Flags == {0, 1, NaN}

\* rows of the full-output table
FullOutputRows == [filename : RawNames, qc_co2_flux : Flags]

\* the full-output tables of the model: up to MaxRows rows
FullOutputTables ==
    UNION {[1..n -> FullOutputRows] : n \in 0..MaxRows}

\* names of the files of eddypro_full_cospectra/
cospA == day \o dash \o t1030 \o ext_csv
cospB == day \o dash \o t1100 \o ext_csv
cospT == day \o dash \o t1030 \o ext_txt
CospectraNames == {cospA, cospB, cospT}

\* a row of a cospectra file as written by EddyPro: the natural frequency
\* (column 0) and the data columns, of which the code reads two
Row(f, s, c, o) == [freq |-> f, spec |-> s, cospec |-> c, other |-> o]

\* the file contents of the model (frequencies are unique within a file)
rowsFull == << Row(1, 10, 11, 12), Row(2, 20, 21, 22), Row(3, 30, 31, 32) >>
rowsGaps == << Row(Sentinel, 14, 15, 16), Row(1, Sentinel, 25, 26),
               Row(3, 34, 35, 36) >>
rowsBad  == << Row(1, 17, Sentinel, 19), Row(2, 27, 28, Sentinel) >>
CospectraContents == {rowsFull, rowsGaps, rowsBad}

CospectraFiles == [name : CospectraNames, rows : CospectraContents]

\* the listings of eddypro_full_cospectra/: every name at most once
CospectraFolders ==
    {fs \in UNION {[1..n -> CospectraFiles] : n \in 0..Cardinality(CospectraNames)} :
        \A p, q \in DOMAIN fs : p # q => fs[p].name # fs[q].name}

---------------------------------------------------------------------------
(* get_good_files *)

\* a slip: the query keeps every row whose flag is not 1
GetGoodFilesResult_KeepsMissing(table) ==
    LET kept == SelectSeq(table, LAMBDA r : r.qc_co2_flux # 1)
    IN  [p \in 1..Len(kept) |-> kept[p].filename]

\* df.query('qc_co2_flux == 0')['filename'].values: the filenames of the rows
\* whose flag equals 0, in row order (a missing flag compares unequal to 0)
GetGoodFilesResult(table) ==
    LET kept == SelectSeq(table, LAMBDA r : r.qc_co2_flux = 0)
    IN  [p \in 1..Len(kept) |-> kept[p].filename]

---------------------------------------------------------------------------
(* merge_good_files *)

\* pattern = f'{f[5:13]}-{f[-8:-4]}'
Pattern(f) == PySlice(f, 5, 13) \o dash \o PySlice(f, -8, -4)

\* a slip: the pattern without its wildcards, '{pattern}.csv'
GlobMatch_Exact(name, pattern) == name = pattern \o ext_csv

\* fnmatch of a file name against '*{pattern}*.csv'
GlobMatch(name, pattern) ==
    /\ Len(name) >= Len(ext_csv)
    /\ SubSeq(name, Len(name) - Len(ext_csv) + 1, Len(name)) = ext_csv
    /\ Contains(SubSeq(name, 1, Len(name) - Len(ext_csv)), pattern)

\* glob(f'{ep_output_folder}/eddypro_full_cospectra/*{pattern}*.csv'): the
\* matching files of the folder, in listing order
Glob(folder, pattern) ==
    SelectSeq(folder, LAMBDA file : GlobMatch(file.name, pattern))

\* a cell as read_csv(..., na_values=-9999) parses it
ParseCell(raw) == IF raw = Sentinel THEN NaN ELSE raw

\* pd.read_csv(file, skiprows=12, index_col=0, na_values=-9999): column 0
\* becomes the index, the sentinel becomes missing in every column
ReadCsv(rows) ==
    [p \in 1..Len(rows) |->
        [freq   |-> ParseCell(rows[p].freq),
         spec   |-> ParseCell(rows[p].spec),
         cospec |-> ParseCell(rows[p].cospec),
         other  |-> ParseCell(rows[p].other)]]

\* a slip: dropna(subset=[the two columns that are read])
DropNa_ReadColumnsOnly(df) ==
    SelectSeq(df, LAMBDA r : r.spec # NaN /\ r.cospec # NaN)

\* df.dropna(): drops the rows with a missing value in a data column (the
\* index is not a column of the frame)
DropNa(df) ==
    SelectSeq(df, LAMBDA r : r.spec # NaN /\ r.cospec # NaN /\ r.other # NaN)

\* a slip: the cospectra table is filled from the spectrum column
CospecSeries_SpecColumn(df) ==
    [index |-> [p \in 1..Len(df) |-> df[p].freq],
     values |-> [p \in 1..Len(df) |-> df[p].spec]]

\* df['f_nat*spec(ts)'] and df['f_nat*cospec(w_ts)']: a series is an index
\* and the values at it
SpecSeries(df) ==
    [index |-> [p \in 1..Len(df) |-> df[p].freq],
     values |-> [p \in 1..Len(df) |-> df[p].spec]]
CospecSeries(df) ==
    [index |-> [p \in 1..Len(df) |-> df[p].freq],
     values |-> [p \in 1..Len(df) |-> df[p].cospec]]

\* pd.DataFrame()
EmptyFrame == [index |-> <<>>, columns |-> <<>>]

\* the names of a frame's columns
ColumnNames(frame) == {frame.columns[c].name : c \in DOMAIN frame.columns}

\* the series reindexed to an index: labels the series lacks become missing,
\* labels it has beyond the index are dropped
Reindex(series, index) ==
    [p \in 1..Len(index) |->
        IF \E q \in DOMAIN series.index : series.index[q] = index[p]
        THEN series.values[CHOOSE q \in DOMAIN series.index :
                                series.index[q] = index[p]]
        ELSE NaN]

\* a slip: the frame takes the index of every series that has rows
IndexAfterSet_Latest(frame, series) ==
    IF Len(series.index) > 0 THEN series.index ELSE frame.index

\* the index of the frame after frame[name] = series: a frame without rows
\* takes the index of a series that has some (DataFrame._ensure_valid_index)
IndexAfterSet(frame, series) ==
    IF Len(frame.index) = 0 /\ Len(series.index) > 0
    THEN series.index
    ELSE frame.index

\* frame[name] = series: the column is aligned to the frame's index; an
\* existing column of that name is replaced in place, a new one is appended
SetColumn(frame, name, series) ==
    LET index == IndexAfterSet(frame, series)
        old == IF index = frame.index THEN frame.columns
               ELSE [c \in DOMAIN frame.columns |->
                        [name |-> frame.columns[c].name,
                         values |-> [p \in 1..Len(index) |-> NaN]]]
        col == [name |-> name, values |-> Reindex(series, index)]
    IN  [index |-> index,
         columns |-> IF name \in ColumnNames(frame)
                     THEN [c \in DOMAIN old |->
                              IF old[c].name = name THEN col ELSE old[c]]
                     ELSE Append(old, col)]

---------------------------------------------------------------------------
(* plot_spectras and plot_cospectras *)

\* the values of row p of the frame that are not missing, in column order
RowValues(frame, p) ==
    SelectSeq([c \in DOMAIN frame.columns |-> frame.columns[c].values[p]],
              LAMBDA v : v # NaN)

\* a slip: the lower of the two middle values instead of their mean
MedianTimes2_Lower(values) ==
    LET sorted == SortSeq(values, LAMBDA a, b : a < b)
        n == Len(sorted)
    IN  IF n = 0 THEN NaN ELSE 2 * sorted[(n + 1) \div 2]

\* twice the median of the values (pandas skips missing values; the median of
\* an even number of values is the mean of the middle two; no value: missing)
MedianTimes2(values) ==
    LET sorted == SortSeq(values, LAMBDA a, b : a < b)
        n == Len(sorted)
    IN  IF n = 0 THEN NaN
        ELSE IF n % 2 = 1 THEN 2 * sorted[(n + 1) \div 2]
        ELSE sorted[n \div 2] + sorted[n \div 2 + 1]

\* df.median(axis=1): one value per row of the frame
RowMedians(df) == [p \in 1..Len(df.index) |-> MedianTimes2(RowValues(df, p))]

\* lowess(endog, exog, is_sorted=True, ...)[:, 0]: statsmodels drops the pairs
\* with a missing member (missing='drop') and returns one fitted point per
\* remaining pair, so none for a series without such a pair; the fitted
\* values are the library's and are not modelled
Lowess(endog, exog) ==
    LET at == SelectSeq([p \in 1..Len(exog) |-> p],
                        LAMBDA p : exog[p] # NaN /\ endog[p] # NaN)
    IN  [k \in 1..Len(at) |-> exog[at[k]]]

\* plt.plot(df.median(axis=1), 'k.', ...)
DataCurve(df) ==
    [label |-> "median data with QC flag 0", x |-> df.index, y |-> RowMedians(df)]

\* the smoothed points plot_spectras draws: smoothed[40:]
SpectraFitPoints(smoothed) == PySlice(smoothed, FitStart, Len(smoothed))

\* the smoothed points plot_cospectras draws: smoothed[:]
CospectraFitPoints(smoothed) == smoothed

\* x = np.linspace(0.2, 5); y1 = .006*x**(-4/3); label '-4/3 slope'
ReferenceCurve ==
    [label |-> "-4/3 slope", coefficient |-> <<6, 1000>>, exponent |-> <<-4, 3>>,
     from |-> <<2, 10>>, to |-> <<5, 1>>]

\* a slip: the reference curve drawn on the spectra figure too
SpectraCurves_WithReference(df) ==
    << DataCurve(df),
       [label |-> "lowess fit",
        x |-> SpectraFitPoints(Lowess(RowMedians(df), df.index)),
        endog |-> RowMedians(df), exog |-> df.index],
       ReferenceCurve >>

\* the curves plot_spectras adds to figure 1
SpectraCurves(df) ==
    << DataCurve(df),
       [label |-> "lowess fit",
        x |-> SpectraFitPoints(Lowess(RowMedians(df), df.index)),
        endog |-> RowMedians(df), exog |-> df.index] >>

\* the curves plot_cospectras adds to figure 2
CospectraCurves(df) ==
    << DataCurve(df),
       [label |-> "lowess fit",
        x |-> CospectraFitPoints(Lowess(RowMedians(df), df.index)),
        endog |-> RowMedians(df), exog |-> df.index],
       ReferenceCurve >>

\* a figure pyplot has just created
NewFigure == [curves |-> <<>>, xscale |-> "linear", yscale |-> "linear"]

\* a slip: 'if outfile is not None:'
Truthy_NotNone(outfile) == outfile # None

\* 'if outfile:' of Python: None and the empty string are false
Truthy(outfile) == outfile # None /\ outfile # ""

\* the paths savefig has written after a plot call with this outfile
SavedAfter(outfile) == IF Truthy(outfile) THEN Append(saved, outfile) ELSE saved

PlotSpectrasCall(df, outfile) ==
    /\ fig1' = [curves |-> fig1.curves \o SpectraCurves(df),
                xscale |-> "log", yscale |-> "log"]
    /\ saved' = SavedAfter(outfile)
    /\ calls' = Append(calls, [fn |-> "plot_spectras", df |-> df, outfile |-> outfile])
    /\ UNCHANGED fig2

PlotCospectrasCall(df, outfile) ==
    /\ fig2' = [curves |-> fig2.curves \o CospectraCurves(df),
                xscale |-> "log", yscale |-> "log"]
    /\ saved' = SavedAfter(outfile)
    /\ calls' = Append(calls, [fn |-> "plot_cospectras", df |-> df, outfile |-> outfile])
    /\ UNCHANGED fig1

---------------------------------------------------------------------------
(* The frames and outfiles an importing user hands to the plot functions *)

\* a frame of more than FitStart rows and one column
longFrame ==
    [index |-> [p \in 1..(FitStart + 2) |-> p],
     columns |-> << [name |-> day \o dash \o t1030,
                     values |-> [p \in 1..(FitStart + 2) |-> 100 + p]] >>]

\* a frame with missing cells, a row without any value, and a missing label
holedFrame ==
    [index |-> <<1, 2, NaN, 4>>,
     columns |-> << [name |-> day \o dash \o t1030, values |-> <<7, NaN, 5, 9>>],
                    [name |-> day \o dash \o t1100, values |-> <<4, NaN, 8, NaN>>],
                    [name |-> dash \o <<"1">>, values |-> <<9, NaN, 6, 2>>] >>]

UserFrames == {EmptyFrame, longFrame, holedFrame}

Outfiles == {None, "", "spectra.png", "cospectra.png"}

---------------------------------------------------------------------------
(* main, step by step *)

\* a slip: main hands the spectra table to plot_cospectras
MainPlotCospectrasArg_Spectra == good_spectras

\* the arguments main passes
MainMergeArg == good_files
MainPlotSpectrasArg == good_spectras
MainPlotCospectrasArg == good_cospectras
MainOutfile == None

Init ==
    /\ caller \in {"main", "user"}
    /\ fullOutputFiles \in
          IF caller = "main"
          THEN {<<>>} \cup {<<t>> : t \in FullOutputTables}
          ELSE {<<>>}
    /\ cospectraFolder \in IF caller = "main" THEN CospectraFolders ELSE {<<>>}
    /\ pc = IF caller = "main" THEN "get_good_files" ELSE "user"
    /\ good_files = <<>>
    /\ i = 0
    /\ good_spectras = EmptyFrame
    /\ good_cospectras = EmptyFrame
    /\ fig1 = NewFigure
    /\ fig2 = NewFigure
    /\ saved = <<>>
    /\ shown = FALSE
    /\ error = ""
    /\ trace = <<>>
    /\ visited = <<>>
    /\ merge_arg = <<>>
    /\ calls = <<>>

\* get_good_files fails: no file matches '**full_output*.csv*', glob(...)[0]
\* raises IndexError, which main does not catch
GetGoodFilesFail ==
    /\ pc = "get_good_files"
    /\ fullOutputFiles = <<>>
    /\ error' = "IndexError"
    /\ pc' = "failed"
    /\ UNCHANGED <<caller, fullOutputFiles, cospectraFolder, good_files, i,
                   good_spectras, good_cospectras, fig1, fig2, saved, shown,
                   trace, visited, merge_arg, calls>>

\* get_good_files returns the filenames of the first matching file's good rows
GetGoodFiles ==
    /\ pc = "get_good_files"
    /\ fullOutputFiles # <<>>
    /\ good_files' = GetGoodFilesResult(Head(fullOutputFiles))
    /\ trace' = trace \o <<"locate", "filter">>
    /\ pc' = "merge_good_files"
    /\ UNCHANGED <<caller, fullOutputFiles, cospectraFolder, i, good_spectras,
                   good_cospectras, fig1, fig2, saved, shown, error, visited,
                   merge_arg, calls>>

\* merge_good_files is entered: two empty frames, the loop at its first file
MergeEnter ==
    /\ pc = "merge_good_files"
    /\ merge_arg' = MainMergeArg
    /\ good_spectras' = EmptyFrame
    /\ good_cospectras' = EmptyFrame
    /\ i' = 1
    /\ pc' = "merge_loop"
    /\ UNCHANGED <<caller, fullOutputFiles, cospectraFolder, good_files, fig1,
                   fig2, saved, shown, error, trace, visited, calls>>

\* a slip: the IndexError of the iteration is not caught
MergeIterSkip_Raises ==
    /\ pc = "merge_loop"
    /\ i <= Len(merge_arg)
    /\ Glob(cospectraFolder, Pattern(merge_arg[i])) = <<>>
    /\ error' = "IndexError"
    /\ pc' = "failed"
    /\ UNCHANGED <<caller, fullOutputFiles, cospectraFolder, good_files, i,
                   good_spectras, good_cospectras, fig1, fig2, saved, shown,
                   trace, visited, merge_arg, calls>>

\* an iteration whose glob(...)[0] raises IndexError: except ... continue
MergeIterSkip ==
    /\ pc = "merge_loop"
    /\ i <= Len(merge_arg)
    /\ Glob(cospectraFolder, Pattern(merge_arg[i])) = <<>>
    /\ visited' = Append(visited, i)
    /\ i' = i + 1
    /\ UNCHANGED <<caller, fullOutputFiles, cospectraFolder, pc, good_files,
                   good_spectras, good_cospectras, fig1, fig2, saved, shown,
                   error, trace, merge_arg, calls>>

\* an iteration that reads the first matching file and sets both columns
MergeIterAppend ==
    /\ pc = "merge_loop"
    /\ i <= Len(merge_arg)
    /\ Glob(cospectraFolder, Pattern(merge_arg[i])) # <<>>
    /\ LET pattern == Pattern(merge_arg[i])
           full_sectra_file == Head(Glob(cospectraFolder, pattern))
           df == DropNa(ReadCsv(full_sectra_file.rows))
       IN  /\ good_spectras' = SetColumn(good_spectras, pattern, SpecSeries(df))
           /\ good_cospectras' = SetColumn(good_cospectras, pattern, CospecSeries(df))
    /\ visited' = Append(visited, i)
    /\ i' = i + 1
    /\ UNCHANGED <<caller, fullOutputFiles, cospectraFolder, pc, good_files,
                   fig1, fig2, saved, shown, error, trace, merge_arg, calls>>

\* the loop is exhausted: merge_good_files returns both frames to main
MergeReturn ==
    /\ pc = "merge_loop"
    /\ i > Len(merge_arg)
    /\ trace' = Append(trace, "merge")
    /\ pc' = "plot_spectras"
    /\ UNCHANGED <<caller, fullOutputFiles, cospectraFolder, good_files, i,
                   good_spectras, good_cospectras, fig1, fig2, saved, shown,
                   error, visited, merge_arg, calls>>

\* plot_spectras(good_spectras)
MainPlotSpectras ==
    /\ pc = "plot_spectras"
    /\ PlotSpectrasCall(MainPlotSpectrasArg, MainOutfile)
    /\ trace' = Append(trace, "plot_spectras")
    /\ pc' = "plot_cospectras"
    /\ UNCHANGED <<caller, fullOutputFiles, cospectraFolder, good_files, i,
                   good_spectras, good_cospectras, shown, error, visited,
                   merge_arg>>

\* plot_cospectras(good_cospectras)
MainPlotCospectras ==
    /\ pc = "plot_cospectras"
    /\ PlotCospectrasCall(MainPlotCospectrasArg, MainOutfile)
    /\ trace' = Append(trace, "plot_cospectras")
    /\ pc' = "show"
    /\ UNCHANGED <<caller, fullOutputFiles, cospectraFolder, good_files, i,
                   good_spectras, good_cospectras, shown, error, visited,
                   merge_arg>>

\* plt.show()
Show ==
    /\ pc = "show"
    /\ shown' = TRUE
    /\ trace' = Append(trace, "show")
    /\ pc' = "done"
    /\ UNCHANGED <<caller, fullOutputFiles, cospectraFolder, good_files, i,
                   good_spectras, good_cospectras, fig1, fig2, saved, error,
                   visited, merge_arg, calls>>

---------------------------------------------------------------------------
(* The plot functions called by a module that imports this one *)

UserPlotSpectras ==
    /\ pc = "user"
    /\ Len(calls) < MaxCalls
    /\ \E df \in UserFrames, outfile \in Outfiles : PlotSpectrasCall(df, outfile)
    /\ UNCHANGED <<caller, fullOutputFiles, cospectraFolder, pc, good_files, i,
                   good_spectras, good_cospectras, shown, error, trace,
                   visited, merge_arg>>

UserPlotCospectras ==
    /\ pc = "user"
    /\ Len(calls) < MaxCalls
    /\ \E df \in UserFrames, outfile \in Outfiles : PlotCospectrasCall(df, outfile)
    /\ UNCHANGED <<caller, fullOutputFiles, cospectraFolder, pc, good_files, i,
                   good_spectras, good_cospectras, shown, error, trace,
                   visited, merge_arg>>

Next ==
    \/ GetGoodFilesFail
    \/ GetGoodFiles
    \/ MergeEnter
    \/ MergeIterSkip
    \/ MergeIterAppend
    \/ MergeReturn
    \/ MainPlotSpectras
    \/ MainPlotCospectras
    \/ Show
    \/ UserPlotSpectras
    \/ UserPlotCospectras

Spec == Init /\ [][Next]_vars

---------------------------------------------------------------------------
(* Vocabulary of the properties, stated apart from the operators above *)


InMain == caller = "main"
AfterFilter == pc \in {"merge_good_files", "merge_loop", "plot_spectras",
                       "plot_cospectras", "show", "done"}
InMerge == pc = "merge_loop"
AfterMerge == pc \in {"plot_spectras", "plot_cospectras", "show", "done"}

\* the full-output table main reads
FullOutput == Head(fullOutputFiles)

\* the positions of the table's rows with flag 0
GoodPositions == {p \in DOMAIN FullOutput : FullOutput[p].qc_co2_flux = 0}

\* characters 6..13 of f, a dash, and the four characters before the last four
KeyOf(f) ==
    LET n == Len(f)
    IN  [k \in 1..(Min(13, n) - 5) |-> f[5 + k]]
        \o <<"-">> \o
        [k \in 1..(n - 4 - Max(n - 8, 0)) |-> f[Max(n - 8, 0) + k]]

\* name is <anything> key <anything> ".csv"
NameHasKey(name, key) ==
    LET n == Len(name)
    IN  /\ n >= 4
        /\ name[n - 3] = "." /\ name[n - 2] = "c" /\ name[n - 1] = "s" /\ name[n] = "v"
        /\ \E s \in 1..(n - 3) :
              /\ s + Len(key) - 1 <= n - 4
              /\ \A k \in 1..Len(key) : name[s + k - 1] = key[k]

\* a cospectra file for the key exists in the folder
HasFile(key) == \E p \in DOMAIN cospectraFolder : NameHasKey(cospectraFolder[p].name, key)

\* the first file of the folder listing that matches the key
FileOf(key) ==
    cospectraFolder[CHOOSE p \in DOMAIN cospectraFolder :
        /\ NameHasKey(cospectraFolder[p].name, key)
        /\ \A q \in 1..(p - 1) : ~NameHasKey(cospectraFolder[q].name, key)]

\* the row of the file holds the sentinel in a data column / in any column
BadData(r) == Sentinel \in {r.spec, r.cospec, r.other}
BadAny(r) == Sentinel \in {r.freq, r.spec, r.cospec, r.other}

\* the label a row of a file has in a frame
LabelOf(r) == IF r.freq = Sentinel THEN NaN ELSE r.freq

\* the column of a frame with this name
ColumnOf(frame, key) ==
    frame.columns[CHOOSE c \in DOMAIN frame.columns : frame.columns[c].name = key]

\* the cell of column key at label l is what the file's field gives: the value
\* of the usable row with that label, missing when there is none
CellFromFile(frame, key, p, field) ==
    LET rows == FileOf(key).rows
        l == frame.index[p]
        usable == {q \in DOMAIN rows : LabelOf(rows[q]) = l /\ ~BadData(rows[q])}
        cell == ColumnOf(frame, key).values[p]
    IN  IF usable = {} THEN cell = NaN
        ELSE \E q \in usable : cell = rows[q][field]

---------------------------------------------------------------------------
(* C1: get_good_files returns exactly the filenames of the rows of the     *)
(* full-output table whose qc_co2_flux is 0, in row order and with their   *)
(* multiplicity; rows with another or a missing flag contribute nothing.   *)
C1_GoodFilesExact ==
    (InMain /\ AfterFilter) =>
        /\ Len(good_files) = Cardinality(GoodPositions)
        /\ \A p \in GoodPositions :
              good_files[Cardinality({q \in GoodPositions : q <= p})]
                  = FullOutput[p].filename

C1_Witness ==
    /\ InMain /\ AfterFilter
    /\ Len(FullOutput) = 2
    /\ FullOutput[1].qc_co2_flux = NaN
    /\ FullOutput[2].qc_co2_flux = 0
    /\ good_files = <<FullOutput[2].filename>>

(* C2: merge_good_files returns two tables with identical column names;    *)
(* the names are exactly the keys f[5:13]-f[-8:-4] of the good files for   *)
(* which a cospectra file matches, and under each key the spectra table    *)
(* holds the spec(ts) series and the cospectra table the cospec(w_ts)      *)
(* series of that file.                                                    *)
C2_MergedColumns ==
    (InMain /\ AfterMerge) =>
        /\ [c \in DOMAIN good_spectras.columns |-> good_spectras.columns[c].name]
             = [c \in DOMAIN good_cospectras.columns |-> good_cospectras.columns[c].name]
        /\ good_spectras.index = good_cospectras.index
        /\ ColumnNames(good_spectras)
             = {KeyOf(good_files[k]) : k \in {j \in DOMAIN good_files :
                                                 HasFile(KeyOf(good_files[j]))}}
        /\ \A key \in ColumnNames(good_spectras) :
              \A p \in DOMAIN good_spectras.index :
                 /\ CellFromFile(good_spectras, key, p, "spec")
                 /\ CellFromFile(good_cospectras, key, p, "cospec")

C2_Witness ==
    /\ InMain /\ AfterMerge
    /\ Cardinality(ColumnNames(good_spectras)) = 2
    /\ Len(good_spectras.index) = 3
    /\ \E c \in DOMAIN good_spectras.columns :
          good_spectras.columns[c].values # good_cospectras.columns[c].values

(* C3 as stated: after the merge every row of the full-output table with   *)
(* qc_co2_flux = 0 has its spectrum and cospectrum as a column of the      *)
(* merged (and plotted) tables.                                            *)
C3_Original ==
    (InMain /\ AfterMerge) =>
        \A p \in GoodPositions :
            /\ KeyOf(FullOutput[p].filename) \in ColumnNames(good_spectras)
            /\ KeyOf(FullOutput[p].filename) \in ColumnNames(good_cospectras)

(* C3 amended: after the merge every row with qc_co2_flux = 0 whose key    *)
(* matches a cospectra file of the folder has a column under that key in   *)
(* both merged tables, and these are the tables the plots are given.       *)
C3_GoodRowsWithFileMerged ==
    (InMain /\ AfterMerge) =>
        /\ \A p \in GoodPositions :
              HasFile(KeyOf(FullOutput[p].filename)) =>
                 /\ KeyOf(FullOutput[p].filename) \in ColumnNames(good_spectras)
                 /\ KeyOf(FullOutput[p].filename) \in ColumnNames(good_cospectras)
        /\ \A c \in DOMAIN calls :
              /\ calls[c].fn = "plot_spectras" => calls[c].df = good_spectras
              /\ calls[c].fn = "plot_cospectras" => calls[c].df = good_cospectras

C3_Witness ==
    /\ InMain /\ pc = "done"
    /\ Cardinality(GoodPositions) = 2
    /\ \E p \in GoodPositions : ~HasFile(KeyOf(FullOutput[p].filename))
    /\ \E p \in GoodPositions : KeyOf(FullOutput[p].filename) \in ColumnNames(calls[1].df)

(* C4 as stated: no value of a row of a cospectra file that held -9999 in  *)
(* any column appears in either table, and -9999 is never a cell.          *)
C4_Original ==
    (InMain /\ (InMerge \/ AfterMerge)) =>
        \A key \in ColumnNames(good_spectras) :
            \A p \in DOMAIN good_spectras.index :
                /\ (\E q \in DOMAIN FileOf(key).rows :
                       /\ BadAny(FileOf(key).rows[q])
                       /\ LabelOf(FileOf(key).rows[q]) = good_spectras.index[p])
                   => /\ ColumnOf(good_spectras, key).values[p] = NaN
                      /\ ColumnOf(good_cospectras, key).values[p] = NaN
                /\ ColumnOf(good_spectras, key).values[p] # Sentinel
                /\ ColumnOf(good_cospectras, key).values[p] # Sentinel

(* C4 amended: no value of a row of a cospectra file that held -9999 in a  *)
(* column other than the first (the frequency, which becomes the index)    *)
(* appears in either table, and -9999 is never a cell.                     *)
C4_SentinelRowsDropped ==
    (InMain /\ (InMerge \/ AfterMerge)) =>
        \A key \in ColumnNames(good_spectras) :
            \A p \in DOMAIN good_spectras.index :
                /\ (\E q \in DOMAIN FileOf(key).rows :
                       /\ BadData(FileOf(key).rows[q])
                       /\ LabelOf(FileOf(key).rows[q]) = good_spectras.index[p])
                   => /\ ColumnOf(good_spectras, key).values[p] = NaN
                      /\ ColumnOf(good_cospectras, key).values[p] = NaN
                /\ ColumnOf(good_spectras, key).values[p] # Sentinel
                /\ ColumnOf(good_cospectras, key).values[p] # Sentinel

C4_Witness ==
    /\ InMain /\ AfterMerge
    /\ \E key \in ColumnNames(good_spectras) :
          /\ FileOf(key).rows = rowsGaps
          /\ \E p \in DOMAIN good_spectras.index :
                /\ good_spectras.index[p] = 1
                /\ ColumnOf(good_spectras, key).values[p] = NaN
          /\ \E p \in DOMAIN good_spectras.index :
                /\ good_spectras.index[p] = 3
                /\ ColumnOf(good_spectras, key).values[p] = 34

Labels(fig) == {fig.curves[c].label : c \in DOMAIN fig.curves}
Called(fn) == \E c \in DOMAIN calls : calls[c].fn = fn

(* C5: the -4/3 reference curve (coefficient 0.006, exponent -4/3) is      *)
(* drawn by plot_cospectras and never by plot_spectras: figure 1 holds the *)
(* median data and the lowess fit, figure 2 these and the reference curve; *)
(* both figures have logarithmic axes.                                     *)
C5_ReferenceCurveOnCospectraOnly ==
    /\ \A c \in DOMAIN fig1.curves : fig1.curves[c].label # "-4/3 slope"
    /\ Called("plot_spectras") =>
          /\ Labels(fig1) = {"median data with QC flag 0", "lowess fit"}
          /\ fig1.xscale = "log" /\ fig1.yscale = "log"
    /\ Called("plot_cospectras") =>
          /\ Labels(fig2) = {"median data with QC flag 0", "lowess fit", "-4/3 slope"}
          /\ fig2.xscale = "log" /\ fig2.yscale = "log"
          /\ \A c \in DOMAIN fig2.curves :
                fig2.curves[c].label = "-4/3 slope" =>
                   /\ fig2.curves[c].coefficient = <<6, 1000>>
                   /\ fig2.curves[c].exponent = <<-4, 3>>
    /\ ~Called("plot_spectras") => fig1 = NewFigure
    /\ ~Called("plot_cospectras") => fig2 = NewFigure

C5_Witness ==
    /\ Called("plot_spectras") /\ Called("plot_cospectras")
    /\ Len(fig1.curves) = 2
    /\ Len(fig2.curves) = 3

\* the steps of main, in the order of its statements
FullOrder == <<"locate", "filter", "merge", "plot_spectras", "plot_cospectras", "show">>

StepsDone ==
    CASE pc \in {"get_good_files", "failed"} -> 0
      [] pc \in {"merge_good_files", "merge_loop"} -> 2
      [] pc = "plot_spectras" -> 3
      [] pc = "plot_cospectras" -> 4
      [] pc = "show" -> 5
      [] pc = "done" -> 6

C6_OrderAndFlow ==
    /\ trace = SubSeq(FullOrder, 1, StepsDone)
    /\ (InMerge \/ AfterMerge) => merge_arg = good_files
    /\ Len(calls) = Cardinality({k \in DOMAIN trace :
                                    trace[k] \in {"plot_spectras", "plot_cospectras"}})
    /\ Len(calls) >= 1 => calls[1].fn = "plot_spectras" /\ calls[1].df = good_spectras
    /\ Len(calls) >= 2 => calls[2].fn = "plot_cospectras" /\ calls[2].df = good_cospectras
    /\ shown <=> pc = "done"

(* C6 as stated: in every run of main the steps locate, filter, merge,     *)
(* plot_spectras, plot_cospectras, show occur exactly once each, in this   *)
(* order, each begun only when the one before is complete; the merge is    *)
(* handed the filter's output and each plot its own table of the merge.    *)
C6_Original ==
    InMain => /\ C6_OrderAndFlow
              /\ pc \in {"done", "failed"} => trace = FullOrder

(* C6 amended: in every run of main the steps occur at most once each and  *)
(* only in the fixed order, with the data flow as stated; a run that ends  *)
(* normally has performed every step exactly once, and a run that finds no *)
(* full-output file ends in get_good_files before any step is complete.    *)
C6_LinearMain ==
    InMain => /\ C6_OrderAndFlow
              /\ pc = "done" => trace = FullOrder
              /\ pc = "failed" => trace = <<>> /\ fullOutputFiles = <<>>
              /\ fullOutputFiles # <<>> => pc # "failed"

C6_Witness ==
    /\ InMain /\ pc = "done"
    /\ trace = FullOrder
    /\ Len(good_files) = 2
    /\ Cardinality(ColumnNames(good_spectras)) = 2
    /\ good_spectras # good_cospectras

C7_SkipStep ==
    (InMerge /\ i <= Len(merge_arg) /\ ~HasFile(KeyOf(merge_arg[i]))) =>
        /\ good_spectras' = good_spectras
        /\ good_cospectras' = good_cospectras
        /\ error' = ""
        /\ pc' = "merge_loop"
        /\ i' = i + 1
        /\ visited' = Append(visited, i)

C7_State ==
    InMain =>
        /\ InMerge => /\ visited = [k \in 1..(i - 1) |-> k]
                      /\ i <= Len(merge_arg) + 1
                      /\ (i <= Len(merge_arg) /\ ~HasFile(KeyOf(merge_arg[i])))
                            => ENABLED MergeIterSkip
                      /\ i > Len(merge_arg) => ENABLED MergeReturn
        /\ AfterMerge => /\ visited = [k \in 1..Len(good_files) |-> k]
                         /\ error = ""
        /\ (AfterMerge /\ \A k \in DOMAIN good_files : ~HasFile(KeyOf(good_files[k])))
              => good_spectras = EmptyFrame /\ good_cospectras = EmptyFrame
        /\ (fullOutputFiles = <<>> /\ pc # "get_good_files")
              => /\ pc = "failed" /\ error = "IndexError"
                 /\ good_files = <<>> /\ merge_arg = <<>> /\ calls = <<>>
        /\ error # "" => fullOutputFiles = <<>>

(* C7: an iteration of the merge loop whose key matches no cospectra file  *)
(* raises nothing, leaves both tables as they are and moves on; every good *)
(* file is visited exactly once and the function returns, with two empty   *)
(* tables when no good file has a file.  get_good_files fails with an      *)
(* IndexError, and no result, when no full-output file exists.             *)
C7_MissingFilesSkipped == []C7_State /\ [][C7_SkipStep]_vars

C7_Witness ==
    /\ InMain /\ AfterMerge
    /\ Len(good_files) = 2
    /\ ~HasFile(KeyOf(good_files[1]))
    /\ HasFile(KeyOf(good_files[2]))
    /\ Len(good_spectras.columns) = 1
    /\ visited = <<1, 2>>

(* C8: a plot function writes a file if and only if its outfile is a       *)
(* non-empty path, and then exactly one, at that path; main passes no      *)
(* outfile, so a run of main writes no file.                               *)
C8_SavedIffOutfile ==
    LET given == SelectSeq(calls, LAMBDA c : c.outfile \notin {"None", ""})
    IN  /\ saved = [k \in 1..Len(given) |-> given[k].outfile]
        /\ InMain => /\ saved = <<>>
                     /\ \A c \in DOMAIN calls : calls[c].outfile = "None"

C8_Witness ==
    /\ ~InMain
    /\ Len(calls) = 2
    /\ calls[1].outfile = ""
    /\ calls[2].outfile = "spectra.png"
    /\ saved = <<"spectra.png">>

IsMedianTimes2(df, p, m) ==
    LET cols == {c \in DOMAIN df.columns : df.columns[c].values[p] # NaN}
        val(c) == df.columns[c].values[p]
        n == Cardinality(cols)
        \* c holds the k-th smallest value of the row
        kth(c, k) == /\ Cardinality({d \in cols : val(d) < val(c)}) < k
                     /\ k <= Cardinality({d \in cols : val(d) <= val(c)})
    IN  IF n = 0 THEN m = NaN
        ELSE \E a, b \in cols :
                /\ kth(a, (n + 1) \div 2)
                /\ kth(b, n \div 2 + 1)
                /\ m = val(a) + val(b)

\* how many of the first c calls were calls of calls[c].fn
CallNo(c) == Cardinality({d \in 1..c : calls[d].fn = calls[c].fn})

\* the positions of the rows that have a frequency and a median
Fittable(df, y) == {p \in DOMAIN df.index : df.index[p] # NaN /\ y[p] # NaN}

\* fit.x is the frequencies of the fittable rows, in order, without the first skip
IsFitLine(df, y, x, skip) ==
    LET rows == Fittable(df, y)
    IN  /\ Len(x) = Max(Cardinality(rows) - skip, 0)
        /\ \A p \in rows :
              LET rank == Cardinality({q \in rows : q <= p})
              IN  rank > skip => x[rank - skip] = df.index[p]

(* C9: both plot functions plot one point per row, the median of the row's *)
(* non-missing values over all columns; the smoother is fed that median    *)
(* series against the frequency index; plot_cospectras draws every         *)
(* smoothed point, plot_spectras those from position 40 on, so none for a  *)
(* table of 40 rows or fewer.  (Medians are compared doubled.)             *)
C9_MedianAndFit ==
    \A c \in DOMAIN calls :
        LET df == calls[c].df
            spectra == calls[c].fn = "plot_spectras"
            data == IF spectra THEN fig1.curves[2 * CallNo(c) - 1]
                    ELSE fig2.curves[3 * CallNo(c) - 2]
            fit == IF spectra THEN fig1.curves[2 * CallNo(c)]
                   ELSE fig2.curves[3 * CallNo(c) - 1]
        IN  /\ data.x = df.index
            /\ Len(data.y) = Len(df.index)
            /\ \A p \in DOMAIN df.index : IsMedianTimes2(df, p, data.y[p])
            /\ fit.endog = data.y
            /\ fit.exog = df.index
            /\ IsFitLine(df, data.y, fit.x, IF spectra THEN 40 ELSE 0)
            /\ (spectra /\ Len(df.index) <= 40) => fit.x = <<>>

C9_Witness ==
    /\ Len(calls) = 2
    /\ calls[1].fn = "plot_spectras" /\ calls[1].df = longFrame
    /\ fig1.curves[2].x = <<41, 42>>
    /\ calls[2].fn = "plot_cospectras" /\ calls[2].df = holedFrame
    /\ fig2.curves[1].y = <<14, NaN, 12, 11>>
    /\ fig2.curves[2].x = <<1, 4>>

\* the frequencies of the file's rows that survive dropna, in file order
UsableLabels(rows) ==
    LET at == SelectSeq([q \in DOMAIN rows |-> q], LAMBDA q : ~BadData(rows[q]))
    IN  [k \in 1..Len(at) |-> LabelOf(rows[at[k]])]

C10_ColumnsOnly ==
    (InMerge /\ i <= Len(merge_arg)) =>
        LET key == KeyOf(merge_arg[i])
        IN  /\ good_cospectras'.index = good_spectras'.index
            /\ good_spectras'.index = good_spectras.index =>
                  \A c \in DOMAIN good_spectras.columns :
                      good_spectras.columns[c].name # key =>
                         /\ good_spectras'.columns[c] = good_spectras.columns[c]
                         /\ good_cospectras'.columns[c] = good_cospectras.columns[c]
            /\ HasFile(key) =>
                  /\ key \in ColumnNames(good_spectras')
                  /\ \A p \in DOMAIN good_spectras'.index :
                        /\ CellFromFile(good_spectras', key, p, "spec")
                        /\ CellFromFile(good_cospectras', key, p, "cospec")
            /\ Len(good_spectras'.columns) <= Len(good_spectras.columns) + 1

C10_ColumnCount ==
    (InMain /\ (InMerge \/ AfterMerge)) =>
        /\ Len(good_spectras.columns) = Cardinality(ColumnNames(good_spectras))
        /\ Len(good_spectras.columns)
              <= Cardinality({k \in DOMAIN visited : HasFile(KeyOf(merge_arg[k]))})

\* the index clause as stated, and as amended
C10_FixedOnceRead ==
    (InMerge /\ good_spectras.columns # <<>>)
        => /\ good_spectras'.index = good_spectras.index
           /\ good_cospectras'.index = good_cospectras.index

C10_FixedOnceRows ==
    /\ (InMerge /\ good_spectras.index # <<>>)
          => /\ good_spectras'.index = good_spectras.index
             /\ good_cospectras'.index = good_cospectras.index
    /\ (InMerge /\ good_spectras.index = <<>> /\ good_spectras'.index # <<>>)
          => /\ HasFile(KeyOf(merge_arg[i]))
             /\ good_spectras'.index = UsableLabels(FileOf(KeyOf(merge_arg[i])).rows)

(* C10 as stated: the first good file that is read fixes the row index of  *)
(* both tables and no later iteration changes it; a later file adds a      *)
(* column only, aligned to that index; good files of the same key share    *)
(* one column, so there are never more columns than good files with a      *)
(* cospectra file.                                                         *)
C10_Original ==
    /\ []C10_ColumnCount
    /\ [][C10_ColumnsOnly /\ C10_FixedOnceRead]_vars

(* C10 amended: the row index of both tables is fixed by the first good    *)
(* file read that has a row left after dropna (until then it is empty) and *)
(* is never changed by a later iteration; the rest as stated.              *)
C10_IndexFixedByFirstRows ==
    /\ []C10_ColumnCount
    /\ [][C10_ColumnsOnly /\ C10_FixedOnceRows]_vars

C10_Witness ==
    /\ InMain /\ AfterMerge
    /\ good_spectras.index = <<NaN, 3>>
    /\ Len(good_spectras.columns) = 2
    /\ good_spectras.columns[1].values = <<14, 34>>
    /\ good_spectras.columns[2].values = <<NaN, 30>>

===========================================================================
